---- MODULE Spec2Model ----
(***************************************************************************)
(* TopKSamplingLayer (cpp/tensorrt_llm/layers/topKSamplingLayer.cu):       *)
(* the per-slot parameter table written by setup() and the dispatch        *)
(* decision of forwardAsync().                                             *)
(*                                                                         *)
(* Conventions.  Slots are numbered from 0 as in the code; positions of a  *)
(* batch are the indices 1..batchSize of TLA+ sequences, so the code's     *)
(* batch index bi is position bi + 1.  A null batchSlots pointer and an    *)
(* absent std::optional vector are the empty sequence <<>>.  A float       *)
(* top-P is kept in tenths (0.5f is 5, 1.0f is ONE = 10, 1.5f is 15);      *)
(* the code only compares and copies these values, so the scaling keeps    *)
(* every comparison exact.                                                 *)
(***************************************************************************)
EXTENDS Integers, Sequences, FiniteSets, TLC

\* mDecoderDomain.getBatchSize(): the number of slots the layer is built for.
MaxBatch == 2

\* The kernel-supported ceiling on top-K (its value is set outside this file).
TOP_K_MAX == 2

\* 1.0f in tenths.
ONE == 10

\* DefaultDecodingParams::getTopK() and getTopP().
DefaultTopK == 0

DefaultTopP == 0

Slots == 0 .. (MaxBatch - 1)

VARIABLES
    mRuntimeTopKDevice,   \* [Slots -> Int]      device table: top-K per slot
    mRuntimeTopPDevice,   \* [Slots -> Int]      device table: top-P per slot (tenths)
    mSkipDecodeDevice,    \* [Slots -> BOOLEAN]  device table: skip flag per slot
    mSkipDecodeHost,      \* [Slots -> BOOLEAN]  pinned host copy of the skip flags
    mRuntimeMaxTopK,      \* high-water mark of the top-K read back in setup()
    configured,           \* slots written by some setup() that returned
    call,                 \* the last call on the layer and its arguments
    returned,             \* whether the last call returned (TRUE) or threw (FALSE)
    kernel                \* the SamplingKernel invocations issued by the last call

vars == <<mRuntimeTopKDevice, mRuntimeTopPDevice, mSkipDecodeDevice,
          mSkipDecodeHost, mRuntimeMaxTopK, configured, call, returned, kernel>>

table == <<mRuntimeTopKDevice, mRuntimeTopPDevice, mSkipDecodeDevice,
           mSkipDecodeHost, mRuntimeMaxTopK>>

----------------------------------------------------------------------------
(* Input sets of the model.  batchSlots holds distinct slots below the      *)
(* layer's batch size (two positions on one slot would be racing kernel     *)
(* threads, a slot beyond the buffers an out-of-bounds write), and a         *)
(* runtimeTopK that is given is not empty (std::max_element of an empty      *)
(* vector is dereferenced).                                                  *)

\* Requested top-K values: negative, zero, in range, above the ceiling.
TopKRequests == {-1, 0, 1, TOP_K_MAX + 1}

\* Requested top-P values: below range, 0.0, inside, above range.
TopPRequests == {-5, 0, 5, 15}

\* The smaller request sets used in long runs of calls.
TopKRuns == {0, 1, TOP_K_MAX + 1}

TopKRunArrays == {0, TOP_K_MAX + 1}

TopPRuns == {0, 5}

\* What a freshly allocated (never written) buffer may hold.
UninitTopK == {0, TOP_K_MAX + 1}

UninitTopP == {0, 5}

Constant(n, v) == [i \in 1 .. n |-> v]

\* Arrays of length n: the first element and the value of the others are free.
Arrays(V, n) == { [i \in 1 .. n |-> IF i = 1 THEN a ELSE b] : a, b \in V }

\* A scalar, a per-slot array of length batchSize, or an array of another length > 1.
Vectors(V, batchSize) ==
    { <<v>> : v \in V }
    \cup (IF batchSize > 1 THEN Arrays(V, batchSize) ELSE {})
    \cup { Constant(n, v) : n \in (2 .. (MaxBatch + 1)) \ {batchSize}, v \in V }

\* runtimeTopK in a long run: a scalar or a per-slot array.
RunTopK(batchSize) ==
    { <<v>> : v \in TopKRuns }
    \cup (IF batchSize > 1 THEN Arrays(TopKRunArrays, batchSize) ELSE {})

\* runtimeTopP in a long run: a scalar or an array one element too long.
RunTopP(batchSize) ==
    { <<v>> : v \in TopPRuns } \cup { Constant(batchSize + 1, 5) }

Injective(s) == \A i, j \in DOMAIN s : s[i] = s[j] => i = j

\* A null batchSlots pointer, or batchSize distinct slots.
BatchSlotsChoices(batchSize) ==
    {<<>>} \cup { s \in [1 .. batchSize -> Slots] : Injective(s) }

----------------------------------------------------------------------------
(* setup() *)

\* Mutant of clampTopP: the upper bound is not applied.
clampTopPLowerOnly(topP) == IF topP < 0 THEN 0 ELSE topP

\* std::clamp(topP, 0.f, 1.f) under the range test of the loop.
clampTopP(topP) ==
    IF topP < 0 \/ topP > ONE
    THEN (IF topP < 0 THEN 0 ELSE ONE)
    ELSE topP

\* Mutant of clampTopK: negative values are not raised to 0.
clampTopKUpperOnly(topK) == IF topK > TOP_K_MAX THEN TOP_K_MAX ELSE topK

\* std::clamp(topK, 0, TOP_K_MAX) under the range test of the loop.
clampTopK(topK) ==
    IF topK < 0 \/ topK > TOP_K_MAX
    THEN (IF topK < 0 THEN 0 ELSE TOP_K_MAX)
    ELSE topK

\* *std::max_element(begin, end) of a non-empty vector.
maxElement(v) == CHOOSE m \in { v[i] : i \in DOMAIN v } : \A i \in DOMAIN v : v[i] <= m

Max(a, b) == IF a >= b THEN a ELSE b

\* Mutant of batchSlotOf: the indirection is ignored.
batchSlotOfIdentity(batchSlots, pos) == pos - 1

\* batchSlots != nullptr ? batchSlots[bi] : bi
batchSlotOf(batchSlots, pos) == IF batchSlots # <<>> THEN batchSlots[pos] ELSE pos - 1

\* The position of a batch that addresses slot s.
positionOf(batchSlots, batchSize, s) ==
    CHOOSE pos \in 1 .. batchSize : batchSlotOf(batchSlots, pos) = s

inBatch(batchSlots, batchSize, s) ==
    \E pos \in 1 .. batchSize : batchSlotOf(batchSlots, pos) = s

\* invokeScatterDecodingParams(src, dst, batchSlots, batchSize): dst[slot(bi)] = src[bi].
invokeScatterDecodingParams(src, dst, batchSlots, batchSize) ==
    [s \in Slots |->
        IF inBatch(batchSlots, batchSize, s)
        THEN src[positionOf(batchSlots, batchSize, s)]
        ELSE dst[s]]

\* Mutant of greedyTopK: the greedy rule is missing.
greedyTopKDropped(k, p) == k

\* Mutant of greedyTopK: the greedy rule fires whatever the top-P.
greedyTopKAnyTopP(k, p) == IF k = 0 THEN 1 ELSE k

\* if (k == 0 && p == 0.0f) k = 1;
greedyTopK(k, p) == IF k = 0 /\ p = 0 THEN 1 ELSE k

\* Mutant of legacyTopP: the top-K-only rule is missing.
legacyTopPDropped(k, p) == p

\* Mutant of legacyTopP: the rule misses k = 1, the k the greedy rule produces.
legacyTopPAboveOne(k, p) == IF k > 1 /\ p = 0 THEN ONE ELSE p

\* if (k > 0 && p == 0.0f) p = 1.0f;
legacyTopP(k, p) == IF k > 0 /\ p = 0 THEN ONE ELSE p

\* The k and p one thread of setupTopKRuntimeArgs reads for a slot.
kernelK(topK, topKs, topKsSize, s) == IF topKsSize > 1 THEN topKs[s] ELSE topK

kernelP(topP, topPs, topPsSize, s) == IF topPsSize > 1 THEN topPs[s] ELSE topP

\* The kernel setupTopKRuntimeArgs: the three device arrays after it has run.
setupTopKRuntimeArgs(batchSize, topK, topKs, topKsSize, topP, topPs, topPsSize, skipDecode, batchSlots) ==
    LET k0(s) == kernelK(topK, topKs, topKsSize, s)
        p0(s) == kernelP(topP, topPs, topPsSize, s)
        k1(s) == greedyTopK(k0(s), p0(s))
        p1(s) == legacyTopP(k1(s), p0(s))
        hit(s) == inBatch(batchSlots, batchSize, s)
    IN  [ topKs      |-> [s \in Slots |-> IF hit(s) THEN k1(s) ELSE topKs[s]],
          topPs      |-> [s \in Slots |-> IF hit(s) THEN p1(s) ELSE topPs[s]],
          skipDecode |-> [s \in Slots |-> IF hit(s) THEN k1(s) = 0 ELSE skipDecode[s]] ]

\* The loop over bi that reads back the top-K of this call's slots.
batchMaxTopK(runtimeTopKs, batchSlots, batchSize) ==
    LET seen == { runtimeTopKs[batchSlotOf(batchSlots, pos)] : pos \in 1 .. batchSize } \cup {0}
    IN  CHOOSE m \in seen : \A x \in seen : x <= m

NoKernel == <<>>

\* Mutant of sizeMismatch: the comparison is the wrong way round.
sizeMismatchShorterOnly(size, batchSize) == size > 1 /\ size < batchSize

\* size > 1 and TLLM_CHECK_WITH_INFO(size == batchSize) fails.
sizeMismatch(size, batchSize) == size > 1 /\ size # batchSize

SetupCall(batchSize, batchSlots, topKOpt, topPOpt) ==
    [ op |-> "setup", batchSize |-> batchSize, batchSlots |-> batchSlots,
      topK |-> topKOpt, topP |-> topPOpt, curandStates |-> FALSE, samplingWorkspace |-> FALSE ]

\* TopKSamplingLayer<T>::setup.  The values the code computes once are bound once
\* (\E over a one-element set), in the order the code computes them.
setup(batchSize, batchSlots, topKOpt, topPOpt) ==
    LET runtimeTopKIn == IF topKOpt # <<>> THEN topKOpt ELSE Constant(batchSize, DefaultTopK)
        runtimeTopKSize == Len(runtimeTopKIn)
        runtimeTopPSize == Len(topPOpt)
        topKFails == sizeMismatch(runtimeTopKSize, batchSize)
        topPFails == sizeMismatch(runtimeTopPSize, batchSize)
    IN
    \E runtimeTopP \in { [i \in 1 .. runtimeTopPSize |-> clampTopP(topPOpt[i])] } :
    \E runtimeTopK \in { [i \in 1 .. runtimeTopKSize |-> clampTopK(runtimeTopKIn[i])] } :
    \E topK \in { maxElement(runtimeTopK) } :
    \E topP \in { IF runtimeTopPSize = 0 THEN DefaultTopP ELSE runtimeTopP[1] } :
      /\ kernel' = NoKernel
      /\ IF topKFails
         THEN \* TLLM_CHECK_WITH_INFO on runtimeTopK.size() throws before any write
              /\ returned' = FALSE
              /\ UNCHANGED <<table, configured>>
         ELSE
         \E topKs1 \in { IF runtimeTopKSize > 1
                          THEN invokeScatterDecodingParams(runtimeTopK, mRuntimeTopKDevice,
                                                           batchSlots, batchSize)
                          ELSE mRuntimeTopKDevice } :
           IF topPFails
           THEN \* TLLM_CHECK_WITH_INFO on runtimeTopP.size() throws after the top-K scatter
                /\ returned' = FALSE
                /\ mRuntimeTopKDevice' = topKs1
                /\ UNCHANGED <<mRuntimeTopPDevice, mSkipDecodeDevice, mSkipDecodeHost,
                               mRuntimeMaxTopK, configured>>
           ELSE
           \E topPs1 \in { IF runtimeTopPSize > 1
                            THEN invokeScatterDecodingParams(runtimeTopP, mRuntimeTopPDevice,
                                                             batchSlots, batchSize)
                            ELSE mRuntimeTopPDevice } :
           \E args \in { setupTopKRuntimeArgs(batchSize, topK, topKs1, runtimeTopKSize,
                                               topP, topPs1, runtimeTopPSize,
                                               mSkipDecodeDevice, batchSlots) } :
             /\ returned' = TRUE
             /\ mRuntimeTopKDevice' = args.topKs
             /\ mRuntimeTopPDevice' = args.topPs
             /\ mSkipDecodeDevice' = args.skipDecode
             \* mBufferManager->copy(*mSkipDecodeDevice, *mSkipDecodeHost): the whole buffer
             /\ mSkipDecodeHost' = args.skipDecode
             /\ mRuntimeMaxTopK' =
                    Max(mRuntimeMaxTopK, batchMaxTopK(args.topKs, batchSlots, batchSize))
             /\ configured' = configured \cup
                    { batchSlotOf(batchSlots, pos) : pos \in 1 .. batchSize }

\* setup() called by the driver at any time, with the requests of a long run.
Setup ==
    \E batchSize \in 1 .. MaxBatch :
      \E batchSlots \in BatchSlotsChoices(batchSize) :
        \E topKOpt \in RunTopK(batchSize) :
          \E topPOpt \in RunTopP(batchSize) :
            /\ setup(batchSize, batchSlots, topKOpt, topPOpt)
            /\ call' = SetupCall(batchSize, batchSlots, topKOpt, topPOpt)

\* setup() as the first call on a new layer, with every shape and value of request.
FirstSetup ==
    /\ call.op = "none"
    /\ \E batchSize \in 1 .. MaxBatch :
         \E batchSlots \in BatchSlotsChoices(batchSize) :
           \E topKOpt \in {<<>>} \cup Vectors(TopKRequests, batchSize) :
             \E topPOpt \in {<<>>} \cup Vectors(TopPRequests, batchSize) :
               /\ setup(batchSize, batchSlots, topKOpt, topPOpt)
               /\ call' = SetupCall(batchSize, batchSlots, topKOpt, topPOpt)

----------------------------------------------------------------------------
(* forwardAsync() *)

\* allOfBatchSlots(batchSlotsHost, data, batchSize, value)
allOfBatchSlots(batchSlotsHost, data, batchSize, value) ==
    \A pos \in 1 .. batchSize : data[batchSlotsHost[pos]] = value

\* std::iota(batchSlotsVec.begin(), batchSlotsVec.end(), 0)
iota(batchSize) == [pos \in 1 .. batchSize |-> pos - 1]

ForwardCall(batchSize, batchSlots, curandStates, samplingWorkspace) ==
    [ op |-> "forward", batchSize |-> batchSize, batchSlots |-> batchSlots,
      topK |-> <<>>, topP |-> <<>>,
      curandStates |-> curandStates, samplingWorkspace |-> samplingWorkspace ]

\* Mutant of kernelParams: the breadth bound is the compile-time ceiling.
kernelParamsCeiling(batchSize, batchSlots) ==
    [ maxTopP |-> ONE,
      topPs |-> mRuntimeTopPDevice,
      maxTopK |-> TOP_K_MAX,
      topKs |-> mRuntimeTopKDevice,
      batchSlots |-> batchSlots,
      skipDecode |-> mSkipDecodeDevice,
      batchSize |-> batchSize,
      maxBatchSize |-> MaxBatch,
      maxTokensPerStep |-> 1 ]

\* Mutant of kernelParams: the kernel is told that no slot is skipped.
kernelParamsNoSkip(batchSize, batchSlots) ==
    [ maxTopP |-> ONE,
      topPs |-> mRuntimeTopPDevice,
      maxTopK |-> mRuntimeMaxTopK,
      topKs |-> mRuntimeTopKDevice,
      batchSlots |-> batchSlots,
      skipDecode |-> [s \in Slots |-> FALSE],
      batchSize |-> batchSize,
      maxBatchSize |-> MaxBatch,
      maxTokensPerStep |-> 1 ]

\* The TopKSamplingKernelParams handed to invokeBatchTopKSampling.
kernelParams(batchSize, batchSlots) ==
    [ maxTopP |-> ONE,
      topPs |-> mRuntimeTopPDevice,
      maxTopK |-> mRuntimeMaxTopK,
      topKs |-> mRuntimeTopKDevice,
      batchSlots |-> batchSlots,
      skipDecode |-> mSkipDecodeDevice,
      batchSize |-> batchSize,
      maxBatchSize |-> MaxBatch,
      maxTokensPerStep |-> 1 ]

\* Mutant of skipAll: the decision reads the device flags.
skipAllDevice(batchSize, batchSlots) ==
    LET batchSlotsHost == IF batchSlots # <<>> THEN batchSlots ELSE iota(batchSize)
    IN  allOfBatchSlots(batchSlotsHost, mSkipDecodeDevice, batchSize, TRUE)

\* The host-side decision: every slot of the batch has its skip flag set in the mirror.
skipAll(batchSize, batchSlots) ==
    LET batchSlotsHost == IF batchSlots # <<>> THEN batchSlots ELSE iota(batchSize)
    IN  allOfBatchSlots(batchSlotsHost, mSkipDecodeHost, batchSize, TRUE)

\* Mutant of resourcesProvided: the workspace is not checked.
resourcesProvidedCurandOnly(curandStates, samplingWorkspace) == curandStates

\* The two TLLM_CHECK_WITH_INFO on curandStatesDevice and samplingWorkspaceDevice.
resourcesProvided(curandStates, samplingWorkspace) == curandStates /\ samplingWorkspace

\* Mutant of forwardAsync: the call refreshes the host mirror from the device.
forwardAsyncRefreshing(batchSize, batchSlots, curandStates, samplingWorkspace) ==
    /\ mSkipDecodeHost' = mSkipDecodeDevice
    /\ UNCHANGED <<mRuntimeTopKDevice, mRuntimeTopPDevice, mSkipDecodeDevice,
                   mRuntimeMaxTopK, configured>>
    /\ IF skipAll(batchSize, batchSlots)
       THEN /\ returned' = TRUE
            /\ kernel' = NoKernel
       ELSE IF ~resourcesProvided(curandStates, samplingWorkspace)
       THEN /\ returned' = FALSE
            /\ kernel' = NoKernel
       ELSE /\ returned' = TRUE
            /\ kernel' = <<kernelParams(batchSize, batchSlots)>>

\* TopKSamplingLayer<T>::forwardAsync
forwardAsync(batchSize, batchSlots, curandStates, samplingWorkspace) ==
    /\ UNCHANGED <<table, configured>>
    /\ IF skipAll(batchSize, batchSlots)
       THEN /\ returned' = TRUE
            /\ kernel' = NoKernel
       ELSE IF ~resourcesProvided(curandStates, samplingWorkspace)
       THEN /\ returned' = FALSE
            /\ kernel' = NoKernel
       ELSE /\ returned' = TRUE
            /\ kernel' = <<kernelParams(batchSize, batchSlots)>>

Forward ==
    \E batchSize \in 1 .. MaxBatch :
      \E batchSlots \in BatchSlotsChoices(batchSize) :
        \E curandStates, samplingWorkspace \in BOOLEAN :
          /\ forwardAsync(batchSize, batchSlots, curandStates, samplingWorkspace)
          /\ call' = ForwardCall(batchSize, batchSlots, curandStates, samplingWorkspace)

----------------------------------------------------------------------------
(* The layer after construction: allocateBuffer() allocates the four        *)
(* buffers and writes none of them; mRuntimeMaxTopK starts at 0.            *)

NoCall ==
    [ op |-> "none", batchSize |-> 0, batchSlots |-> <<>>,
      topK |-> <<>>, topP |-> <<>>, curandStates |-> FALSE, samplingWorkspace |-> FALSE ]

Init ==
    /\ \E k \in UninitTopK : mRuntimeTopKDevice = [s \in Slots |-> k]
    /\ \E p \in UninitTopP : mRuntimeTopPDevice = [s \in Slots |-> p]
    /\ mSkipDecodeDevice \in [Slots -> BOOLEAN]
    /\ mSkipDecodeHost \in [Slots -> BOOLEAN]
    /\ mRuntimeMaxTopK = 0
    /\ configured = {}
    /\ call = NoCall
    /\ returned = TRUE
    /\ kernel = NoKernel

Next == Setup \/ Forward

Spec == Init /\ [][Next]_vars

\* One setup() on a new layer.
SpecFirstSetup == Init /\ [][FirstSetup]_vars

----------------------------------------------------------------------------
(* What the last call asked for. *)

SetupReturned == call.op = "setup" /\ returned

Positions == 1 .. call.batchSize

\* The slot a position of a call c addresses.
SlotOf(c, pos) == IF c.batchSlots = <<>> THEN pos - 1 ELSE c.batchSlots[pos]

\* The slot a position of the last call addresses.
SlotAt(pos) == SlotOf(call, pos)

\* The last call was a forwardAsync() whose slots all have skip set in the host mirror.
AllSkipped == \A pos \in 1 .. call.batchSize : mSkipDecodeHost[SlotAt(pos)]

ResourceMissing == ~call.curandStates \/ ~call.samplingWorkspace

\* The top-K and top-P requested for a position: its array element, or the scalar.
RequestedTopK(pos) == IF Len(call.topK) > 1 THEN call.topK[pos] ELSE call.topK[1]

RequestedTopP(pos) == IF Len(call.topP) > 1 THEN call.topP[pos] ELSE call.topP[1]

BothRequested == call.topK # <<>> /\ call.topP # <<>>

\* A vector of length > 1 that does not have one element per position.
LengthMismatch(v) == Len(v) > 1 /\ Len(v) # call.batchSize

----------------------------------------------------------------------------
(* C1: after a setup() that returns, every position whose requested top-K,   *)
(* clamped to the ceiling, is > 0 and whose requested top-P is exactly 0.0   *)
(* has, at its slot, topK = the clamped request, topP = 1.0 and skip = FALSE, *)
(* for a scalar and for an array request alike.                              *)
C1_TopKOnly ==
    (SetupReturned /\ BothRequested) =>
        \A pos \in Positions :
            (RequestedTopK(pos) > 0 /\ RequestedTopP(pos) = 0) =>
                /\ mRuntimeTopKDevice[SlotAt(pos)] =
                       (IF RequestedTopK(pos) > TOP_K_MAX THEN TOP_K_MAX ELSE RequestedTopK(pos))
                /\ mRuntimeTopPDevice[SlotAt(pos)] = ONE
                /\ mSkipDecodeDevice[SlotAt(pos)] = FALSE

\* Reached: an array request with an in-range top-K and one above the ceiling, top-P 0.0.
C1_Witness ==
    /\ SetupReturned /\ BothRequested
    /\ Len(call.topK) > 1
    /\ call.batchSlots # <<>>
    /\ \E pos \in Positions : RequestedTopK(pos) = 1 /\ RequestedTopP(pos) = 0
    /\ \E pos \in Positions : RequestedTopK(pos) > TOP_K_MAX /\ RequestedTopP(pos) = 0

(* C2: after a setup() that returns, every position whose requested top-K is 0 *)
(* and whose requested top-P is 0.0 has topK = 1 and skip = FALSE at its slot. *)
C2_Greedy ==
    (SetupReturned /\ BothRequested) =>
        \A pos \in Positions :
            (RequestedTopK(pos) = 0 /\ RequestedTopP(pos) = 0) =>
                /\ mRuntimeTopKDevice[SlotAt(pos)] = 1
                /\ mSkipDecodeDevice[SlotAt(pos)] = FALSE

C2_Witness ==
    /\ SetupReturned /\ BothRequested
    /\ \E pos \in Positions :
          /\ RequestedTopK(pos) = 0 /\ RequestedTopP(pos) = 0
          /\ mRuntimeTopKDevice[SlotAt(pos)] = 1
    /\ \E pos \in Positions : RequestedTopK(pos) # 0

(* C3: after a setup() that returns, every position whose requested top-K is 0 *)
(* and whose requested top-P is > 0.0 has skip = TRUE and topK = 0 at its slot, *)
(* in the device table and in the host mirror.                                *)
C3_Skip ==
    (SetupReturned /\ BothRequested) =>
        \A pos \in Positions :
            (RequestedTopK(pos) = 0 /\ RequestedTopP(pos) > 0) =>
                /\ mRuntimeTopKDevice[SlotAt(pos)] = 0
                /\ mSkipDecodeDevice[SlotAt(pos)] = TRUE
                /\ mSkipDecodeHost[SlotAt(pos)] = TRUE

C3_Witness ==
    /\ SetupReturned /\ BothRequested
    /\ \E pos \in Positions :
          /\ RequestedTopK(pos) = 0 /\ RequestedTopP(pos) > ONE
          /\ mSkipDecodeHost[SlotAt(pos)]
    /\ \E pos \in Positions : ~mSkipDecodeHost[SlotAt(pos)]

(* C4: mRuntimeMaxTopK is at least the current top-K of every slot that a   *)
(* setup() has configured, in every state the layer reaches.                 *)
C4_MaxCoversConfigured ==
    \A s \in configured : mRuntimeMaxTopK >= mRuntimeTopKDevice[s]

\* The other half of C4: no call lowers mRuntimeMaxTopK.
C4_MaxNeverDecreases == [][mRuntimeMaxTopK' >= mRuntimeMaxTopK]_vars

(* C5: a forwardAsync() whose slots all have skip set in the host mirror     *)
(* launches no kernel, returns without error and leaves the parameter table, *)
(* the mirror and mRuntimeMaxTopK as they were.                              *)
C5_AllSkipNoKernel ==
    [][ ( /\ call'.op = "forward"
          /\ \A pos \in 1 .. call'.batchSize : mSkipDecodeHost[SlotOf(call', pos)] )
        => ( kernel' = NoKernel /\ returned' /\ table' = table ) ]_vars

\* Reached: slots configured to skip, forwardAsync() without resources returns.
C5_Witness ==
    /\ call.op = "forward"
    /\ AllSkipped
    /\ call.batchSize = MaxBatch
    /\ \A pos \in Positions : SlotAt(pos) \in configured
    /\ ResourceMissing
    /\ returned
    /\ kernel = NoKernel

(* C6: a forwardAsync() with some slot of the batch not skipped in the host  *)
(* mirror and both resources present launches exactly one kernel, with the   *)
(* table's topK, topP and skip arrays, a top-P ceiling of 1.0 and the        *)
(* current mRuntimeMaxTopK; no other call launches a kernel.                 *)
C6_OneKernel ==
    [][ LET launch ==
              /\ call'.op = "forward"
              /\ \E pos \in 1 .. call'.batchSize : ~mSkipDecodeHost[SlotOf(call', pos)]
              /\ call'.curandStates
              /\ call'.samplingWorkspace
        IN  /\ launch =>
                  /\ Len(kernel') = 1
                  /\ kernel'[1].topKs = mRuntimeTopKDevice
                  /\ kernel'[1].topPs = mRuntimeTopPDevice
                  /\ kernel'[1].skipDecode = mSkipDecodeDevice
                  /\ kernel'[1].maxTopP = ONE
                  /\ kernel'[1].maxTopK = mRuntimeMaxTopK
            /\ ~launch => kernel' = NoKernel ]_vars

\* Reached: a kernel launched on a batch with one skipped and one active slot.
C6_Witness ==
    /\ call.op = "forward"
    /\ Len(kernel) = 1
    /\ \E pos \in Positions : mSkipDecodeHost[SlotAt(pos)]
    /\ \E pos \in Positions : ~mSkipDecodeHost[SlotAt(pos)]
    /\ \A pos \in Positions : SlotAt(pos) \in configured
    /\ kernel[1].maxTopK = 1

(* C7: a setup() whose top-K or top-P vector has a length > 1 other than     *)
(* batchSize throws, whatever the other vector is.                           *)
C7_LengthMismatchThrows ==
    (call.op = "setup" /\ (LengthMismatch(call.topK) \/ LengthMismatch(call.topP)))
        => ~returned

\* Reached: a valid per-slot top-K array with a top-P array one element too long.
C7_Witness ==
    /\ call.op = "setup"
    /\ ~returned
    /\ Len(call.topK) = call.batchSize /\ call.batchSize > 1
    /\ Len(call.topP) = call.batchSize + 1

(* C8: a setup() whose vectors have a valid length returns whatever their    *)
(* values, and every configured slot has topK in 0..TOP_K_MAX and topP in    *)
(* 0.0..1.0.                                                                  *)
C8_OutOfRangeClamped ==
    /\ (call.op = "setup" /\ ~LengthMismatch(call.topK) /\ ~LengthMismatch(call.topP))
           => returned
    /\ \A s \in configured :
          /\ mRuntimeTopKDevice[s] \in 0 .. TOP_K_MAX
          /\ mRuntimeTopPDevice[s] \in 0 .. ONE

\* Reached: requests of top-P 1.5 and below 0.0, top-K negative and above the ceiling.
C8_Witness ==
    /\ SetupReturned /\ BothRequested
    /\ \E pos \in Positions : RequestedTopP(pos) > ONE /\ RequestedTopK(pos) > TOP_K_MAX
    /\ \E pos \in Positions : RequestedTopP(pos) < 0 \/ RequestedTopK(pos) < 0

\* A per-slot array (one element per position, more than one) of equal elements.
EqualArray(v, batchSize) ==
    Len(v) > 1 /\ Len(v) = batchSize /\ \A i \in DOMAIN v : v[i] = v[1]

(* C9: a setup() with a per-slot top-K (top-P) array whose elements all equal *)
(* v changes the parameter table, the host mirror and mRuntimeMaxTopK exactly *)
(* as the same call with the scalar v does from the same state.               *)
C9_RoundTrip ==
    [][ call'.op = "setup" =>
          /\ EqualArray(call'.topK, call'.batchSize) =>
                setup(call'.batchSize, call'.batchSlots, <<call'.topK[1]>>, call'.topP)
          /\ EqualArray(call'.topP, call'.batchSize) =>
                setup(call'.batchSize, call'.batchSlots, call'.topK, <<call'.topP[1]>>) ]_vars

\* C9 for the calls that return.
C9_RoundTripReturned ==
    [][ (call'.op = "setup" /\ returned') =>
          /\ EqualArray(call'.topK, call'.batchSize) =>
                setup(call'.batchSize, call'.batchSlots, <<call'.topK[1]>>, call'.topP)
          /\ EqualArray(call'.topP, call'.batchSize) =>
                setup(call'.batchSize, call'.batchSlots, call'.topK, <<call'.topP[1]>>) ]_vars

(* C10 as stated: a forwardAsync() without rngStates or without workspace    *)
(* throws and launches no kernel.                                             *)
C10_MissingResourceThrows ==
    (call.op = "forward" /\ ResourceMissing) => (~returned /\ kernel = NoKernel)

(* C10 as amended: a forwardAsync() without rngStates or without workspace   *)
(* launches no kernel; it throws when some slot of the batch is not skipped   *)
(* in the host mirror and returns without error when all are skipped.         *)
C10_MissingResourceThrowsUnlessAllSkipped ==
    (call.op = "forward" /\ ResourceMissing) =>
        /\ kernel = NoKernel
        /\ returned <=> AllSkipped

\* Reached: curand states given, no workspace, one slot active: the call threw.
C10_Witness ==
    /\ call.op = "forward"
    /\ call.curandStates /\ ~call.samplingWorkspace
    /\ ~AllSkipped
    /\ ~returned

----------------------------------------------------------------------------
(* C11: whenever a forwardAsync() has launched the kernel, the skip array    *)
(* the kernel was given is the table's skip array and has, at every slot of  *)
(* the batch, the value the host mirror gave the all-skip test.              *)
C11_KernelSkipAgreesWithMirror ==
    (call.op = "forward" /\ kernel # NoKernel) =>
        /\ kernel[1].skipDecode = mSkipDecodeDevice
        /\ \A pos \in Positions :
              kernel[1].skipDecode[SlotAt(pos)] = mSkipDecodeHost[SlotAt(pos)]

\* C11 once some setup() has returned on the layer.
C11_KernelSkipAgreesAfterSetup ==
    (call.op = "forward" /\ kernel # NoKernel /\ configured # {}) =>
        /\ kernel[1].skipDecode = mSkipDecodeDevice
        /\ \A pos \in Positions :
              kernel[1].skipDecode[SlotAt(pos)] = mSkipDecodeHost[SlotAt(pos)]

(* C12: on a newly constructed layer every slot has skip = (topK = 0) in the *)
(* device table, and the host mirror holds the same skip flags.              *)
C12_DefaultPopulated ==
    call.op = "none" =>
        \A s \in Slots :
            /\ mSkipDecodeDevice[s] = (mRuntimeTopKDevice[s] = 0)
            /\ mSkipDecodeHost[s] = mSkipDecodeDevice[s]

(* C13: in every state the layer reaches, every slot configured by a setup() *)
(* has skip = (topK = 0) in the device table.                                *)
C13_SkipIffTopKZero ==
    \A s \in configured : mSkipDecodeDevice[s] = (mRuntimeTopKDevice[s] = 0)

\* C13 for the slots of a setup() that has just returned.
C13_SkipIffTopKZeroOnReturn ==
    SetupReturned =>
        \A pos \in Positions :
            mSkipDecodeDevice[SlotAt(pos)] = (mRuntimeTopKDevice[SlotAt(pos)] = 0)

----------------------------------------------------------------------------
(* What a position of the last setup() asked for, with the defaults of an    *)
(* absent vector, and what the rules of the specification make of it.        *)

AskedTopK(pos) == IF call.topK = <<>> THEN DefaultTopK ELSE RequestedTopK(pos)

AskedTopP(pos) == IF call.topP = <<>> THEN DefaultTopP ELSE RequestedTopP(pos)

\* The request clamped into [0, TOP_K_MAX] and [0.0, 1.0].
InRangeTopK(pos) ==
    IF AskedTopK(pos) < 0 THEN 0
    ELSE IF AskedTopK(pos) > TOP_K_MAX THEN TOP_K_MAX ELSE AskedTopK(pos)

InRangeTopP(pos) ==
    IF AskedTopP(pos) < 0 THEN 0
    ELSE IF AskedTopP(pos) > ONE THEN ONE ELSE AskedTopP(pos)

\* k = 0 with p = 0.0 is greedy (k = 1); p = 0.0 then becomes 1.0.
ResolvedTopK(pos) ==
    IF InRangeTopK(pos) = 0 /\ InRangeTopP(pos) = 0 THEN 1 ELSE InRangeTopK(pos)

ResolvedTopP(pos) == IF InRangeTopP(pos) = 0 THEN ONE ELSE InRangeTopP(pos)

(* C14: after a setup() that returns, the slot batchSlots[bi] of every batch *)
(* position bi (the slot bi when batchSlots is null) holds the topK, topP    *)
(* and skip resolved from that position's own request: its array element    *)
(* where an array was given, the scalar where a scalar was given.            *)
C14_ScatterThroughSlots ==
    SetupReturned =>
        \A pos \in Positions :
            /\ mRuntimeTopKDevice[SlotAt(pos)] = ResolvedTopK(pos)
            /\ mRuntimeTopPDevice[SlotAt(pos)] = ResolvedTopP(pos)
            /\ mSkipDecodeDevice[SlotAt(pos)] = (ResolvedTopK(pos) = 0)
            /\ mSkipDecodeHost[SlotAt(pos)] = (ResolvedTopK(pos) = 0)

\* Reached: topK = [0, above the ceiling] with the scalar topP 0.5, through
\* batchSlots that reverse the positions: skip at one slot, TOP_K_MAX at the other.
C14_Witness ==
    /\ SetupReturned
    /\ call.batchSize = 2
    /\ call.batchSlots = <<1, 0>>
    /\ call.topK = <<0, TOP_K_MAX + 1>>
    /\ call.topP = <<5>>
    /\ mSkipDecodeDevice[1] /\ ~mSkipDecodeDevice[0]
    /\ mRuntimeTopKDevice[0] = TOP_K_MAX
    /\ mRuntimeTopPDevice[0] = 5

(* C15: after a setup() that returns, a position asked with topP < 0.0 and   *)
(* topK > 0 has topP = 1.0 and skip = FALSE; one asked with topK < 0 and     *)
(* topP <= 0.0 has topK = 1 and skip = FALSE; one asked with topK < 0 and    *)
(* topP in (0.0, 1.0] has topK = 0 and skip = TRUE.                          *)
C15_ClampThenRules ==
    (SetupReturned /\ BothRequested) =>
        \A pos \in Positions :
            /\ (RequestedTopP(pos) < 0 /\ RequestedTopK(pos) > 0) =>
                  /\ mRuntimeTopPDevice[SlotAt(pos)] = ONE
                  /\ mSkipDecodeDevice[SlotAt(pos)] = FALSE
            /\ (RequestedTopK(pos) < 0 /\ RequestedTopP(pos) <= 0) =>
                  /\ mRuntimeTopKDevice[SlotAt(pos)] = 1
                  /\ mSkipDecodeDevice[SlotAt(pos)] = FALSE
            /\ (RequestedTopK(pos) < 0 /\ RequestedTopP(pos) > 0 /\ RequestedTopP(pos) <= ONE) =>
                  /\ mRuntimeTopKDevice[SlotAt(pos)] = 0
                  /\ mSkipDecodeDevice[SlotAt(pos)] = TRUE

\* Reached: one position with a negative topK and topP 0.5 (skipped), one with
\* a positive topK and a negative topP (topP 1.0).
C15_Witness ==
    /\ SetupReturned /\ BothRequested
    /\ \E pos \in Positions :
          /\ RequestedTopK(pos) < 0 /\ RequestedTopP(pos) = 5
          /\ mSkipDecodeDevice[SlotAt(pos)]
    /\ \E pos \in Positions :
          /\ RequestedTopK(pos) > 0 /\ RequestedTopP(pos) < 0
          /\ mRuntimeTopPDevice[SlotAt(pos)] = ONE

\* Reached: a negative topK with a negative topP resolves to greedy.
C15_WitnessGreedy ==
    /\ SetupReturned /\ BothRequested
    /\ \E pos \in Positions :
          /\ RequestedTopK(pos) < 0 /\ RequestedTopP(pos) < 0
          /\ mRuntimeTopKDevice[SlotAt(pos)] = 1

----------------------------------------------------------------------------
(* C16: every forwardAsync(), whether it returns early, launches the kernel  *)
(* or throws, leaves the device table, the host mirror and mRuntimeMaxTopK   *)
(* as they were; they change only in a step of setup().                      *)
C16_ForwardKeepsTable ==
    [][ /\ call'.op = "forward" => table' = table
        /\ table' # table => call'.op = "setup" ]_vars

\* Reached: a forwardAsync() that threw on a fully configured layer.
C16_Witness ==
    /\ call.op = "forward"
    /\ ~returned
    /\ configured = Slots
    /\ mRuntimeMaxTopK = TOP_K_MAX
    /\ \E s \in Slots : mSkipDecodeHost[s]

(* C17: a setup() that returns leaves the host mirror equal to the device    *)
(* skip array on every slot; no other step changes either of them; and the   *)
(* kernel a forwardAsync() launches is given the device skip array. So once  *)
(* a setup() has returned, the mirror read by the all-skip test and the      *)
(* array read by the kernel are both the flags of the last setup() that      *)
(* returned before the forwardAsync().                                       *)
C17_MirrorCoherent ==
    [][ /\ (call'.op = "setup" /\ returned') => mSkipDecodeHost' = mSkipDecodeDevice'
        /\ ~(call'.op = "setup" /\ returned') =>
              /\ mSkipDecodeHost' = mSkipDecodeHost
              /\ mSkipDecodeDevice' = mSkipDecodeDevice
        /\ configured' # {} => mSkipDecodeHost' = mSkipDecodeDevice'
        /\ kernel' # NoKernel => kernel'[1].skipDecode = mSkipDecodeDevice' ]_vars

\* Reached: after setup() calls on both slots, a forwardAsync() through reversed
\* batchSlots launches the kernel with the mirror's flags, one slot skipped.
C17_Witness ==
    /\ call.op = "forward"
    /\ call.batchSlots = <<1, 0>>
    /\ configured = Slots
    /\ Len(kernel) = 1
    /\ kernel[1].skipDecode = mSkipDecodeHost
    /\ mSkipDecodeHost[0] /\ ~mSkipDecodeHost[1]

----------------------------------------------------------------------------
\* The slots a call c names: batchSlots[bi] for bi < batchSize (bi itself when null).
NamedSlots(c) == { SlotOf(c, pos) : pos \in 1 .. c.batchSize }

(* C18: a setup() leaves the topK, topP and skip of the device table and the *)
(* skip of the host mirror unchanged at every slot it does not name.         *)
C18_OtherSlotsUnchanged ==
    [][ call'.op = "setup" =>
          \A s \in Slots \ NamedSlots(call') :
              /\ mRuntimeTopKDevice'[s] = mRuntimeTopKDevice[s]
              /\ mRuntimeTopPDevice'[s] = mRuntimeTopPDevice[s]
              /\ mSkipDecodeDevice'[s] = mSkipDecodeDevice[s]
              /\ mSkipDecodeHost'[s] = mSkipDecodeHost[s] ]_vars

\* C18 for the device table, and for the mirror of a slot whose mirror flag
\* agreed with the device flag before the call.
C18_OtherSlotsUnchangedOnDevice ==
    [][ call'.op = "setup" =>
          \A s \in Slots \ NamedSlots(call') :
              /\ mRuntimeTopKDevice'[s] = mRuntimeTopKDevice[s]
              /\ mRuntimeTopPDevice'[s] = mRuntimeTopPDevice[s]
              /\ mSkipDecodeDevice'[s] = mSkipDecodeDevice[s]
              /\ (mSkipDecodeHost[s] = mSkipDecodeDevice[s]) =>
                    mSkipDecodeHost'[s] = mSkipDecodeHost[s] ]_vars

(* C19: a setup() that throws on a length check leaves the device table, the *)
(* host mirror and mRuntimeMaxTopK as they were.                             *)
C19_AbortKeepsTable ==
    [][ (call'.op = "setup" /\ ~returned') => table' = table ]_vars

\* C19 when the mismatching array is the top-K array, and in every case for
\* everything but the top-K of the slots the call names.
C19_AbortKeepsAllButNamedTopK ==
    [][ (call'.op = "setup" /\ ~returned') =>
          /\ (Len(call'.topK) > 1 /\ Len(call'.topK) # call'.batchSize) => table' = table
          /\ \A s \in Slots \ NamedSlots(call') :
                mRuntimeTopKDevice'[s] = mRuntimeTopKDevice[s]
          /\ UNCHANGED <<mRuntimeTopPDevice, mSkipDecodeDevice, mSkipDecodeHost,
                         mRuntimeMaxTopK>> ]_vars

(* C20: in every state the layer reaches, every configured slot has a topP   *)
(* in (0.0, 1.0], and after a setup() that returns every position asked with *)
(* topK = 0 and topP = 0.0 has topK = 1 and topP = 1.0 at its slot.          *)
C20_NoZeroTopP ==
    /\ \A s \in configured : mRuntimeTopPDevice[s] \in 1 .. ONE
    /\ SetupReturned =>
          \A pos \in Positions :
              (AskedTopK(pos) = 0 /\ AskedTopP(pos) = 0) =>
                  /\ mRuntimeTopKDevice[SlotAt(pos)] = 1
                  /\ mRuntimeTopPDevice[SlotAt(pos)] = ONE

\* Reached: a slot asked with topK 0 and topP 0.0 is greedy with topP 1.0,
\* next to a configured slot that is skipped with topP 0.5.
C20_Witness ==
    /\ SetupReturned
    /\ configured = Slots
    /\ \E pos \in Positions :
          /\ AskedTopK(pos) = 0 /\ AskedTopP(pos) = 0
          /\ mRuntimeTopKDevice[SlotAt(pos)] = 1
          /\ mRuntimeTopPDevice[SlotAt(pos)] = ONE
    /\ \E s \in Slots : mSkipDecodeDevice[s] /\ mRuntimeTopPDevice[s] = 5

====
